---- MODULE Spec2Model ----
(***************************************************************************)
(* A model of memorymodel.go: the seven examples of the Go memory model,   *)
(* each a function that starts goroutines which coordinate through Go's    *)
(* built-in channels (make, send, receive, close) and through sync.Mutex.  *)
(*                                                                         *)
(* A goroutine is a process with a program counter naming the source line  *)
(* of the statement it executes next; one action is one statement.  A      *)
(* blocking statement is an action that is not enabled while the statement *)
(* blocks.  A channel is the record the Go runtime keeps for it (capacity, *)
(* buffered values, closed flag) with the counts of its completed sends    *)
(* and receives.                                                           *)
(*                                                                         *)
(* Spec runs one of Example1..Example7, or (example = 0) a bounded set of   *)
(* client goroutines that drive one channel with the same channel          *)
(* operations: they send, receive and close in any order, and recover from *)
(* the panics of a send on a closed channel and of a second close.         *)
(*                                                                         *)
(* A string is two machine words, its data and its length.  Where a read   *)
(* of a races with a write (Example1, Example2) the read is two loads in   *)
(* either order, and may combine the data of one write with the length of  *)
(* another.  The write is one step: writing the two words apart adds no    *)
(* value such a read can see.  Where the accesses are ordered by a channel *)
(* or by the mutex, a read is one step.                                    *)
(***************************************************************************)
EXTENDS Integers, Sequences, FiniteSets, TLC

\* Example6: len(work), line 85, and the capacity of limit, line 91.
NumWork == 10
LimitCap == 3
\* Example3 and Example4: the capacity of c, lines 41 and 55.
BufCap == 10

\* Bounds of the channel clients: the capacities, the calls issued, the
\* clients and the values sent.
MaxCap == 3
MaxOps == 7
NumClients == 2
MaxVal == 1

Main == 0
Child == 1
Workers == 1..NumWork
Procs == 0..NumWork
Clients == 1..NumClients
Vals == 0..MaxVal

VARIABLES
    example,  \* the function that runs: 1..7, 0 for the channel clients
    pc,       \* pc[p]: the line goroutine p executes next
    a,        \* the shared string a of Example1..5 and Example7
    i,        \* Example6: the loop variable of line 92
    ch,       \* the channel: c of Example3..5, limit of Example6
    l,        \* the sync.Mutex l of Example7
    out,      \* the lines printed so far
    cop,      \* clients: cop[c], the call client c is inside
    ret,      \* clients: what the last completed channel call returned
    nops,     \* clients: the number of calls issued
    half      \* the word of a that a racing read has loaded so far

vars == <<example, pc, a, i, ch, l, out, cop, ret, nops, half>>

-----------------------------------------------------------------------------
(* Channels *)

\* make(chan int, cap)
MakeChan(cap) ==
    [cap |-> cap, buf |-> <<>>, closed |-> FALSE, sends |-> 0, recvs |-> 0]

\* The channel variable before make.
NoChan == MakeChan(0)

SendPanicsWhenFull(c) == c.closed /\ Len(c.buf) >= c.cap

\* A send on a closed channel panics.
SendPanics(c) == c.closed

CanBufSendOffByOne(c) == ~c.closed /\ Len(c.buf) <= c.cap

\* A send completes at once when the buffer has a free slot.
CanBufSend(c) == ~c.closed /\ Len(c.buf) < c.cap

BufSendDropsValue(c, v) == [c EXCEPT !.sends = @ + 1]

BufSend(c, v) == [c EXCEPT !.buf = Append(@, v), !.sends = @ + 1]

\* A receive takes the oldest buffered value, open or closed.
CanBufRecv(c) == Len(c.buf) > 0

BufRecvKeepsValue(c) == [c EXCEPT !.recvs = @ + 1]

BufRecv(c) == [c EXCEPT !.buf = Tail(@), !.recvs = @ + 1]

RecvValue(c) == Head(c.buf)

\* A receive from a closed channel with nothing buffered returns the zero
\* value and ok = false.
RecvClosedBlocks(c) == FALSE

RecvClosedOrEmpty(c) == Len(c.buf) = 0

RecvClosed(c) == c.closed /\ Len(c.buf) = 0

\* With no buffer slot to use, a send completes together with a receive
\* that waits for it.
CanHandoffAlone(c) == ~c.closed /\ Len(c.buf) = 0

CanHandoffNever(c) == FALSE

CanHandoff(c) == ~c.closed /\ c.cap = 0 /\ Len(c.buf) = 0

Handoff(c) == [c EXCEPT !.sends = @ + 1, !.recvs = @ + 1]

\* rcv: a goroutine waits in <-c.  The send hands its value to it.
HandsOff(c, rcv) == rcv /\ CanHandoff(c)

\* The statement c <- v with a buffer: it panics, or it takes a free slot,
\* or it blocks.
CanSend(c) == SendPanics(c) \/ CanBufSend(c)

Send(c, v) == IF SendPanics(c) THEN c ELSE BufSend(c, v)

CanRecvAlways(c) == TRUE

\* The statement <-c: the oldest buffered value, or the zero value of a
\* closed channel, or it blocks.
CanRecv(c) == CanBufRecv(c) \/ RecvClosed(c)

Recv(c) == IF CanBufRecv(c) THEN BufRecv(c) ELSE c

RecvResult(c) ==
    IF CanBufRecv(c) THEN [val |-> RecvValue(c), ok |-> TRUE]
    ELSE [val |-> 0, ok |-> FALSE]

\* The statement c <- v on any channel, rcv saying whether a goroutine
\* waits in <-c.
SendReadyNoReceiver(c, rcv) == CanSend(c) \/ CanHandoffAlone(c)

SendReady(c, rcv) == CanSend(c) \/ HandsOff(c, rcv)

SendTo(c, v, rcv) == IF HandsOff(c, rcv) THEN Handoff(c) ELSE Send(c, v)

ClosePanicsNever(c) == FALSE

\* close(c); closing a closed channel panics.
ClosePanics(c) == c.closed

CloseChanDropsBuffer(c) == [c EXCEPT !.closed = TRUE, !.buf = <<>>]

CloseChan(c) == [c EXCEPT !.closed = TRUE]

\* fmt.Println of an int.
Itoa(n) == <<"0", "1", "2", "3", "4", "5", "6", "7", "8", "9">>[n + 1]

-----------------------------------------------------------------------------
(* sync.Mutex *)

NewMutex == [state |-> "Unlocked", locks |-> 0, unlocks |-> 0]

CanLockAlways(m) == TRUE

\* Lock returns only from the unlocked state.
CanLock(m) == m.state = "Unlocked"

LockLeavesUnlocked(m) == [m EXCEPT !.locks = @ + 1]

Lock(m) == [m EXCEPT !.state = "Locked", !.locks = @ + 1]

\* Unlock of an unlocked mutex is a fatal error.
UnlockFatal(m) == m.state = "Unlocked"

UnlockLeavesLocked(m) == [m EXCEPT !.unlocks = @ + 1]

Unlock(m) == [m EXCEPT !.state = "Unlocked", !.unlocks = @ + 1]

-----------------------------------------------------------------------------
(* Strings *)

\* len(s) of the strings the examples assign.
StrLen(s) ==
    CASE s = "" -> 0
      [] s = "empty" -> 5
      [] s = "bye world" -> 9
      [] s = "hello world" -> 11

\* What is printed for the data of string d with length n: d, or a prefix
\* of d, or d with the bytes ("?") that follow it in memory.
Str(d, n) ==
    CASE n = StrLen(d) -> d
      [] n = 0 -> ""
      [] d = "hello world" /\ n = 9 -> "hello wor"
      [] d = "hello world" /\ n = 5 -> "hello"
      [] d = "bye world" /\ n = 11 -> "bye world??"
      [] d = "empty" /\ n = 11 -> "empty??????"
      [] OTHER -> "?"

NoWord == [word |-> "none", data |-> "", len |-> 0]

LoadWordUninitialised(s, wd) ==
    IF wd = "data" THEN [word |-> "data", data |-> "", len |-> 0]
    ELSE [word |-> "len", data |-> "", len |-> 0]

\* The first load of a racing read of s: its data or its length.
LoadWord(s, wd) ==
    IF wd = "data" THEN [word |-> "data", data |-> s, len |-> 0]
    ELSE [word |-> "len", data |-> "", len |-> StrLen(s)]

\* The second load, of the other word of s, and the string read.
LoadRest(h, s) ==
    IF h.word = "data" THEN Str(h.data, StrLen(s)) ELSE Str(s, h.len)

-----------------------------------------------------------------------------
(* The examples *)

FirstLine(e) ==
    IF e = 0 THEN "make"
    ELSE <<"L16", "L29", "L41", "L55", "L70", "L85", "L110">>[e]

Goto(p, line) == pc' = [pc EXCEPT ![p] = line]

Goto2(p, line, q, qline) == pc' = [pc EXCEPT ![p] = line, ![q] = qline]

Println(s) == out' = Append(out, s)

\* The state in which a function of E is called.
Start(E) ==
    /\ example \in E
    /\ pc = [p \in Procs |-> IF p = Main THEN FirstLine(example) ELSE "idle"]
    /\ a = ""
    /\ i = 0
    /\ ch = NoChan
    /\ l = NewMutex
    /\ out = <<>>
    /\ cop = [c \in Clients |-> [op |-> "idle", val |-> 0]]
    /\ ret = [client |-> 0, op |-> "none", val |-> 0, ok |-> FALSE,
              err |-> "none"]
    /\ nops = 0
    /\ half = NoWord

Init == Start(0..7)

\* Example1, line 16: var a string = "hello world"
E1_Decl ==
    /\ example = 1 /\ pc[Main] = "L16"
    /\ a' = "hello world"
    /\ Goto(Main, "L17")
    /\ UNCHANGED <<half, example, i, ch, l, out, cop, ret, nops>>

\* line 17: go func() { ... }()
E1_Go ==
    /\ example = 1 /\ pc[Main] = "L17"
    /\ Goto2(Main, "L20", Child, "L18")
    /\ UNCHANGED <<half, example, a, i, ch, l, out, cop, ret, nops>>

\* line 18, the goroutine: fmt.Println(a), the first load of a.  The read
\* races with the write of line 20.
E1_ChildLoad(wd) ==
    /\ example = 1 /\ pc[Child] = "L18"
    /\ half' = LoadWord(a, wd)
    /\ Goto(Child, "L18b")
    /\ UNCHANGED <<example, a, i, ch, l, out, cop, ret, nops>>

\* line 18, the goroutine: fmt.Println(a), the second load and the print
E1_ChildPrint ==
    /\ example = 1 /\ pc[Child] = "L18b"
    /\ Println(LoadRest(half, a))
    /\ half' = NoWord
    /\ Goto(Child, "done")
    /\ UNCHANGED <<example, a, i, ch, l, cop, ret, nops>>

\* line 20: a = "bye world"
E1_Assign ==
    /\ example = 1 /\ pc[Main] = "L20"
    /\ a' = "bye world"
    /\ Goto(Main, "L21")
    /\ UNCHANGED <<half, example, i, ch, l, out, cop, ret, nops>>

\* line 21: time.Sleep(1 * time.Second), which waits for no goroutine
E1_Sleep ==
    /\ example = 1 /\ pc[Main] = "L21"
    /\ Goto(Main, "ret")
    /\ UNCHANGED <<half, example, a, i, ch, l, out, cop, ret, nops>>

\* Example2, line 29: var a string = "empty"
E2_Decl ==
    /\ example = 2 /\ pc[Main] = "L29"
    /\ a' = "empty"
    /\ Goto(Main, "L30")
    /\ UNCHANGED <<half, example, i, ch, l, out, cop, ret, nops>>

\* line 30: go func() { ... }()
E2_Go ==
    /\ example = 2 /\ pc[Main] = "L30"
    /\ Goto2(Main, "L31", Child, "L30")
    /\ UNCHANGED <<half, example, a, i, ch, l, out, cop, ret, nops>>

\* line 30, the goroutine: a = "hello world"
E2_ChildAssign ==
    /\ example = 2 /\ pc[Child] = "L30"
    /\ a' = "hello world"
    /\ Goto(Child, "done")
    /\ UNCHANGED <<half, example, i, ch, l, out, cop, ret, nops>>

\* line 31: fmt.Println(a), the first load of a.  The read races with the
\* write of the goroutine.
E2_Load(wd) ==
    /\ example = 2 /\ pc[Main] = "L31"
    /\ half' = LoadWord(a, wd)
    /\ Goto(Main, "L31b")
    /\ UNCHANGED <<example, a, i, ch, l, out, cop, ret, nops>>

\* line 31: fmt.Println(a), the second load and the print
E2_Print ==
    /\ example = 2 /\ pc[Main] = "L31b"
    /\ Println(LoadRest(half, a))
    /\ half' = NoWord
    /\ Goto(Main, "ret")
    /\ UNCHANGED <<example, a, i, ch, l, cop, ret, nops>>

\* Example3, lines 41-42: c := make(chan int, 10); var a string
E3_Decl ==
    /\ example = 3 /\ pc[Main] = "L41"
    /\ ch' = MakeChan(BufCap)
    /\ a' = ""
    /\ Goto(Main, "L44")
    /\ UNCHANGED <<half, example, i, l, out, cop, ret, nops>>

\* line 44: go func() { ... }()
E3_Go ==
    /\ example = 3 /\ pc[Main] = "L44"
    /\ Goto2(Main, "L48", Child, "L45")
    /\ UNCHANGED <<half, example, a, i, ch, l, out, cop, ret, nops>>

\* line 45, the goroutine: a = "hello world"
E3_ChildAssign ==
    /\ example = 3 /\ pc[Child] = "L45"
    /\ a' = "hello world"
    /\ Goto(Child, "L46")
    /\ UNCHANGED <<half, example, i, ch, l, out, cop, ret, nops>>

\* line 46, the goroutine: c <- 0
E3_ChildSend ==
    /\ example = 3 /\ pc[Child] = "L46"
    /\ CanSend(ch)
    /\ ch' = Send(ch, 0)
    /\ Goto(Child, IF SendPanics(ch) THEN "panic" ELSE "done")
    /\ UNCHANGED <<half, example, a, i, l, out, cop, ret, nops>>

\* line 48: <-c
E3_Recv ==
    /\ example = 3 /\ pc[Main] = "L48"
    /\ CanRecv(ch)
    /\ ch' = Recv(ch)
    /\ Goto(Main, "L49")
    /\ UNCHANGED <<half, example, a, i, l, out, cop, ret, nops>>

\* line 49: fmt.Println(a)
E3_Print ==
    /\ example = 3 /\ pc[Main] = "L49"
    /\ Println(a)
    /\ Goto(Main, "ret")
    /\ UNCHANGED <<half, example, a, i, ch, l, cop, ret, nops>>

\* Example4, lines 55-56: c := make(chan int, 10); var a string
E4_Decl ==
    /\ example = 4 /\ pc[Main] = "L55"
    /\ ch' = MakeChan(BufCap)
    /\ a' = ""
    /\ Goto(Main, "L58")
    /\ UNCHANGED <<half, example, i, l, out, cop, ret, nops>>

\* line 58: go func() { ... }()
E4_Go ==
    /\ example = 4 /\ pc[Main] = "L58"
    /\ Goto2(Main, "L62", Child, "L59")
    /\ UNCHANGED <<half, example, a, i, ch, l, out, cop, ret, nops>>

\* line 59, the goroutine: a = "hello world"
E4_ChildAssign ==
    /\ example = 4 /\ pc[Child] = "L59"
    /\ a' = "hello world"
    /\ Goto(Child, "L60")
    /\ UNCHANGED <<half, example, i, ch, l, out, cop, ret, nops>>

\* line 60, the goroutine: close(c)
E4_ChildClose ==
    /\ example = 4 /\ pc[Child] = "L60"
    /\ ch' = IF ClosePanics(ch) THEN ch ELSE CloseChan(ch)
    /\ Goto(Child, IF ClosePanics(ch) THEN "panic" ELSE "done")
    /\ UNCHANGED <<half, example, a, i, l, out, cop, ret, nops>>

\* line 62: fmt.Println(<-c)
E4_Recv1 ==
    /\ example = 4 /\ pc[Main] = "L62"
    /\ CanRecv(ch)
    /\ ch' = Recv(ch)
    /\ Println(Itoa(RecvResult(ch).val))
    /\ Goto(Main, "L63")
    /\ UNCHANGED <<half, example, a, i, l, cop, ret, nops>>

\* line 63: fmt.Println(<-c)
E4_Recv2 ==
    /\ example = 4 /\ pc[Main] = "L63"
    /\ CanRecv(ch)
    /\ ch' = Recv(ch)
    /\ Println(Itoa(RecvResult(ch).val))
    /\ Goto(Main, "L64")
    /\ UNCHANGED <<half, example, a, i, l, cop, ret, nops>>

\* line 64: fmt.Println(a)
E4_Print ==
    /\ example = 4 /\ pc[Main] = "L64"
    /\ Println(a)
    /\ Goto(Main, "ret")
    /\ UNCHANGED <<half, example, a, i, ch, l, cop, ret, nops>>

\* Example5, lines 70-71: var c = make(chan int); var a string
E5_Decl ==
    /\ example = 5 /\ pc[Main] = "L70"
    /\ ch' = MakeChan(0)
    /\ a' = ""
    /\ Goto(Main, "L72")
    /\ UNCHANGED <<half, example, i, l, out, cop, ret, nops>>

\* line 72: go func() { ... }()
E5_Go ==
    /\ example = 5 /\ pc[Main] = "L72"
    /\ Goto2(Main, "L76", Child, "L73")
    /\ UNCHANGED <<half, example, a, i, ch, l, out, cop, ret, nops>>

\* line 73, the goroutine: a = "hello world"
E5_ChildAssign ==
    /\ example = 5 /\ pc[Child] = "L73"
    /\ a' = "hello world"
    /\ Goto(Child, "L74")
    /\ UNCHANGED <<half, example, i, ch, l, out, cop, ret, nops>>

\* line 76: c <- 0, and with it line 74, the goroutine's <-c.  c has no
\* buffer and nothing closes it, so the receive of line 74 completes only
\* as the other half of this send.
E5_SendRecv ==
    /\ example = 5 /\ pc[Main] = "L76"
    /\ SendReady(ch, pc[Child] = "L74")
    /\ ch' = SendTo(ch, 0, pc[Child] = "L74")
    /\ pc' = [pc EXCEPT
                ![Main] = IF SendPanics(ch) THEN "panic" ELSE "L77",
                ![Child] = IF HandsOff(ch, pc[Child] = "L74")
                           THEN "done" ELSE @]
    /\ UNCHANGED <<half, example, a, i, l, out, cop, ret, nops>>

\* line 77: fmt.Println(a)
E5_Print ==
    /\ example = 5 /\ pc[Main] = "L77"
    /\ Println(a)
    /\ Goto(Main, "ret")
    /\ UNCHANGED <<half, example, a, i, ch, l, cop, ret, nops>>

\* Example6, lines 85-91: the work functions, and
\* limit := make(chan int, 3)
E6_Decl ==
    /\ example = 6 /\ pc[Main] = "L85"
    /\ ch' = MakeChan(LimitCap)
    /\ i' = 0
    /\ Goto(Main, "L92")
    /\ UNCHANGED <<half, example, a, l, out, cop, ret, nops>>

\* lines 92-93: for i, w := range work { go func(w FuncType) {...}(w) }
E6_Go ==
    /\ example = 6 /\ pc[Main] = "L92"
    /\ i < NumWork
    /\ Goto(i + 1, "L96")
    /\ i' = i + 1
    /\ UNCHANGED <<half, example, a, ch, l, out, cop, ret, nops>>

\* line 92: the range is exhausted
E6_LoopEnd ==
    /\ example = 6 /\ pc[Main] = "L92"
    /\ i = NumWork
    /\ Goto(Main, "L101")
    /\ UNCHANGED <<half, example, a, i, ch, l, out, cop, ret, nops>>

\* line 101: time.Sleep(1 * time.Second), which waits for no goroutine
E6_Sleep ==
    /\ example = 6 /\ pc[Main] = "L101"
    /\ Goto(Main, "ret")
    /\ UNCHANGED <<half, example, a, i, ch, l, out, cop, ret, nops>>

\* line 96, worker w: limit <- 1
E6_Acquire(w) ==
    /\ example = 6 /\ pc[w] = "L96"
    /\ CanSend(ch)
    /\ ch' = Send(ch, 1)
    /\ Goto(w, IF SendPanics(ch) THEN "panic" ELSE "L97")
    /\ UNCHANGED <<half, example, a, i, l, out, cop, ret, nops>>

\* line 97, worker w: w(i), which prints one line and returns.  The lines
\* the work functions print are not kept in out.
E6_Work(w) ==
    /\ example = 6 /\ pc[w] = "L97"
    /\ Goto(w, "L98")
    /\ UNCHANGED <<half, example, a, i, ch, l, out, cop, ret, nops>>

\* line 98, worker w: <-limit
E6_Release(w) ==
    /\ example = 6 /\ pc[w] = "L98"
    /\ CanRecv(ch)
    /\ ch' = Recv(ch)
    /\ Goto(w, "done")
    /\ UNCHANGED <<half, example, a, i, l, out, cop, ret, nops>>

\* Example7, lines 110-116: var l sync.Mutex; var a string; var f = func
E7_Decl ==
    /\ example = 7 /\ pc[Main] = "L110"
    /\ l' = NewMutex
    /\ a' = ""
    /\ Goto(Main, "L118")
    /\ UNCHANGED <<half, example, i, ch, out, cop, ret, nops>>

\* line 118: l.Lock()
E7_Lock1 ==
    /\ example = 7 /\ pc[Main] = "L118"
    /\ CanLock(l)
    /\ l' = Lock(l)
    /\ Goto(Main, "L119")
    /\ UNCHANGED <<half, example, a, i, ch, out, cop, ret, nops>>

\* line 119: go f()
E7_Go ==
    /\ example = 7 /\ pc[Main] = "L119"
    /\ Goto2(Main, "L120", Child, "L114")
    /\ UNCHANGED <<half, example, a, i, ch, l, out, cop, ret, nops>>

\* line 114, f: a = "hello world"
E7_ChildAssign ==
    /\ example = 7 /\ pc[Child] = "L114"
    /\ a' = "hello world"
    /\ Goto(Child, "L115")
    /\ UNCHANGED <<half, example, i, ch, l, out, cop, ret, nops>>

\* line 115, f: l.Unlock()
E7_ChildUnlock ==
    /\ example = 7 /\ pc[Child] = "L115"
    /\ l' = IF UnlockFatal(l) THEN l ELSE Unlock(l)
    /\ Goto(Child, IF UnlockFatal(l) THEN "fatal" ELSE "done")
    /\ UNCHANGED <<half, example, a, i, ch, out, cop, ret, nops>>

\* line 120: l.Lock()
E7_Lock2 ==
    /\ example = 7 /\ pc[Main] = "L120"
    /\ CanLock(l)
    /\ l' = Lock(l)
    /\ Goto(Main, "L121")
    /\ UNCHANGED <<half, example, a, i, ch, out, cop, ret, nops>>

\* line 121: fmt.Println(a)
E7_Print ==
    /\ example = 7 /\ pc[Main] = "L121"
    /\ Println(a)
    /\ Goto(Main, "ret")
    /\ UNCHANGED <<half, example, a, i, ch, l, cop, ret, nops>>

-----------------------------------------------------------------------------
(* The channel clients *)

Idle == [op |-> "idle", val |-> 0]

Returned(c, op, v, ok, err) ==
    [client |-> c, op |-> op, val |-> v, ok |-> ok, err |-> err]

Receivers == {r \in Clients : cop[r].op = "recv"}

\* make(chan int, k)
Chan_Make(k) ==
    /\ example = 0 /\ pc[Main] = "make"
    /\ ch' = MakeChan(k)
    /\ Goto(Main, "run")
    /\ UNCHANGED <<half, example, a, i, l, out, cop, ret, nops>>

\* Client c enters c <- v.
Chan_CallSend(c, v) ==
    /\ example = 0 /\ pc[Main] = "run"
    /\ cop[c].op = "idle" /\ nops < MaxOps
    /\ cop' = [cop EXCEPT ![c] = [op |-> "send", val |-> v]]
    /\ nops' = nops + 1
    /\ UNCHANGED <<half, example, pc, a, i, ch, l, out, ret>>

\* Client c enters <-c.
Chan_CallRecv(c) ==
    /\ example = 0 /\ pc[Main] = "run"
    /\ cop[c].op = "idle" /\ nops < MaxOps
    /\ cop' = [cop EXCEPT ![c] = [op |-> "recv", val |-> 0]]
    /\ nops' = nops + 1
    /\ UNCHANGED <<half, example, pc, a, i, ch, l, out, ret>>

\* The send of client s completes: it panics (SendOnClosed), or it takes a
\* buffer slot, or it hands its value to a waiting receiver r, whose
\* receive completes with it.
Chan_SendReturn(s) ==
    /\ example = 0 /\ cop[s].op = "send"
    /\ SendReady(ch, Receivers # {})
    /\ ch' = SendTo(ch, cop[s].val, Receivers # {})
    /\ IF HandsOff(ch, Receivers # {})
       THEN \E r \in Receivers :
               /\ cop' = [cop EXCEPT ![s] = Idle, ![r] = Idle]
               /\ ret' = Returned(r, "recv", cop[s].val, TRUE, "none")
       ELSE /\ cop' = [cop EXCEPT ![s] = Idle]
            /\ ret' = Returned(s, "send", cop[s].val, ~SendPanics(ch),
                               IF SendPanics(ch) THEN "SendOnClosed"
                               ELSE "none")
    /\ UNCHANGED <<half, example, pc, a, i, l, out, nops>>

\* The receive of client r completes from the buffer or from the closed
\* channel.
Chan_RecvReturn(r) ==
    /\ example = 0 /\ cop[r].op = "recv"
    /\ CanRecv(ch)
    /\ ch' = Recv(ch)
    /\ cop' = [cop EXCEPT ![r] = Idle]
    /\ ret' = Returned(r, "recv", RecvResult(ch).val, RecvResult(ch).ok, "none")
    /\ UNCHANGED <<half, example, pc, a, i, l, out, nops>>

\* Client c calls close(c), which never blocks: it closes the channel, or
\* it panics (DoubleClose).
Chan_Close(c) ==
    /\ example = 0 /\ pc[Main] = "run"
    /\ cop[c].op = "idle" /\ nops < MaxOps
    /\ ch' = IF ClosePanics(ch) THEN ch ELSE CloseChan(ch)
    /\ ret' = Returned(c, "close", 0, ~ClosePanics(ch),
                       IF ClosePanics(ch) THEN "DoubleClose" ELSE "none")
    /\ nops' = nops + 1
    /\ UNCHANGED <<half, example, pc, a, i, l, out, cop>>

ChanClients ==
    \/ \E k \in 0..MaxCap : Chan_Make(k)
    \/ \E c \in Clients, v \in Vals : Chan_CallSend(c, v)
    \/ \E c \in Clients : Chan_CallRecv(c)
    \/ \E c \in Clients : Chan_SendReturn(c)
    \/ \E c \in Clients : Chan_RecvReturn(c)
    \/ \E c \in Clients : Chan_Close(c)

Example1 ==
    \/ E1_Decl \/ E1_Go \/ E1_Assign \/ E1_Sleep
    \/ \E wd \in {"data", "len"} : E1_ChildLoad(wd)
    \/ E1_ChildPrint

Example2 ==
    \/ E2_Decl \/ E2_Go \/ E2_ChildAssign
    \/ \E wd \in {"data", "len"} : E2_Load(wd)
    \/ E2_Print

Example3 ==
    E3_Decl \/ E3_Go \/ E3_ChildAssign \/ E3_ChildSend \/ E3_Recv \/ E3_Print

Example4 ==
    \/ E4_Decl \/ E4_Go \/ E4_ChildAssign \/ E4_ChildClose
    \/ E4_Recv1 \/ E4_Recv2 \/ E4_Print

Example5 == E5_Decl \/ E5_Go \/ E5_ChildAssign \/ E5_SendRecv \/ E5_Print

Worker(w) == E6_Acquire(w) \/ E6_Work(w) \/ E6_Release(w)

Example6 ==
    \/ E6_Decl \/ E6_Go \/ E6_LoopEnd \/ E6_Sleep
    \/ \E w \in Workers : Worker(w)

Example7 ==
    \/ E7_Decl \/ E7_Lock1 \/ E7_Go \/ E7_ChildAssign \/ E7_ChildUnlock
    \/ E7_Lock2 \/ E7_Print

Examples ==
    \/ Example1 \/ Example2 \/ Example3 \/ Example4
    \/ Example5 \/ Example6 \/ Example7

Next == ChanClients \/ Examples

Spec == Init /\ [][Next]_vars

\* The steps of the goroutine the go statement of Example1..5 and Example7
\* starts, and those of the goroutine that runs the example.
ChildStep ==
    \/ (\E wd \in {"data", "len"} : E1_ChildLoad(wd)) \/ E1_ChildPrint
    \/ E2_ChildAssign \/ E3_ChildAssign \/ E3_ChildSend
    \/ E4_ChildAssign \/ E4_ChildClose \/ E5_ChildAssign
    \/ E7_ChildAssign \/ E7_ChildUnlock

MainStep ==
    \/ E1_Decl \/ E1_Go \/ E1_Assign \/ E1_Sleep
    \/ E2_Decl \/ E2_Go
    \/ (\E wd \in {"data", "len"} : E2_Load(wd)) \/ E2_Print
    \/ E3_Decl \/ E3_Go \/ E3_Recv \/ E3_Print
    \/ E4_Decl \/ E4_Go \/ E4_Recv1 \/ E4_Recv2 \/ E4_Print
    \/ E5_Decl \/ E5_Go \/ E5_SendRecv \/ E5_Print
    \/ E6_Decl \/ E6_Go \/ E6_LoopEnd \/ E6_Sleep
    \/ E7_Decl \/ E7_Lock1 \/ E7_Go \/ E7_Lock2 \/ E7_Print

\* The scheduler runs every goroutine that can take a step.
Fairness ==
    /\ WF_vars(MainStep)
    /\ WF_vars(ChildStep)
    /\ \A w \in Workers : WF_vars(Worker(w))

\* The examples under that scheduler.  (The channel clients are free to
\* stop calling.)
FairSpec == Start(1..7) /\ [][Examples]_vars /\ Fairness

-----------------------------------------------------------------------------
(* Example6: the limiter *)

\* The workers between limit <- 1 and <-limit.
Running == {w \in Workers : pc[w] \in {"L97", "L98"}}

Waiting == {w \in Workers : pc[w] = "L96"}

\* C1: at most LimitCap = 3 of the 10 workers of Example6 are between their
\* ticket acquisition (limit <- 1) and their ticket release (<-limit).
C1_LimiterBound ==
    example = 6 => Cardinality(Running) <= LimitCap

\* Three workers run and a fourth waits for a ticket.
C1_Witness ==
    /\ example = 6
    /\ Cardinality(Running) = LimitCap
    /\ Waiting # {}

AllWorkDone == \A w \in Workers : pc[w] = "done"

\* C2: under fair scheduling every one of the 10 work items of Example6
\* acquires a ticket, runs and releases it, and in no state does a work
\* item wait for a ticket while no goroutine can take a step.
C2_LimiterProgress ==
    /\ [](example = 6 /\ Waiting # {} => ENABLED Next)
    /\ (example = 6 ~> AllWorkDone)

\* All 10 work items have released their tickets.
C2_Witness ==
    /\ example = 6
    /\ AllWorkDone
    /\ ch.sends = NumWork /\ ch.recvs = NumWork

-----------------------------------------------------------------------------
(* Channels: the order of sends and receives *)

\* C3: on a channel of capacity C > 0 the (k+C)-th send does not complete
\* before the k-th receive has occurred, and each of the first C sends
\* completes with no receive at all: a goroutine inside such a send can
\* complete it.
C3_BufferedKC ==
    ch.cap > 0 =>
        /\ ch.sends <= ch.recvs + ch.cap
        /\ (~ch.closed /\ ch.sends < ch.cap) =>
              /\ \A s \in Clients :
                    cop[s].op = "send" => ENABLED Chan_SendReturn(s)
              /\ \A w \in Workers :
                    (example = 6 /\ pc[w] = "L96") => ENABLED E6_Acquire(w)

\* Capacity 3: sends 1..5 have completed after receives 1..2.
C3_Witness ==
    /\ example = 0
    /\ ch.cap = 3 /\ ch.sends = 5 /\ ch.recvs = 2

SendCompletes(s) == cop[s].op = "send" /\ cop'[s].op = "idle"

RecvCompletes(r) == cop[r].op = "recv" /\ cop'[r].op = "idle"

\* C4: on a channel of capacity 0 a send completes only together with a
\* receive that waits for it; in Example5 main's c <- 0 completes only when
\* the goroutine has executed a = "hello world" and is in <-c, and main
\* prints "hello world".
C4_Rendezvous ==
    /\ [][\A s \in Clients :
            (ch.cap = 0 /\ ~ch.closed /\ SendCompletes(s)) =>
                \E r \in Clients : RecvCompletes(r) /\ ret'.client = r]_vars
    /\ [][(example = 5 /\ pc[Main] = "L76" /\ pc'[Main] # "L76") =>
            /\ pc[Child] = "L74" /\ pc'[Child] = "done"
            /\ pc'[Main] = "L77"
            /\ a = "hello world"]_vars
    /\ [](ch.cap = 0 => Len(ch.buf) = 0 /\ ch.sends = ch.recvs)
    /\ []((example = 5 /\ pc[Main] = "ret") => out = <<"hello world">>)

\* Example5 has returned after the send and the receive completed.
C4_Witness ==
    /\ example = 5 /\ pc[Main] = "ret"
    /\ ch.sends = 1 /\ ch.recvs = 1

-----------------------------------------------------------------------------
(* sync.Mutex *)

\* C5: call m of Lock returns only after call n of Unlock, for every n < m;
\* in Example7 the second l.Lock() returns only after f has executed
\* l.Unlock(), and main prints "hello world".
C5_MutexOrder ==
    /\ l.locks <= l.unlocks + 1
    /\ (example = 7 /\ pc[Main] \in {"L121", "ret"}) =>
          /\ l.locks = 2 /\ l.unlocks = 1
          /\ pc[Child] = "done"
          /\ a = "hello world"
    /\ (example = 7 /\ pc[Main] = "ret") => out = <<"hello world">>

\* Example7 has returned after its second l.Lock().
C5_Witness ==
    /\ example = 7 /\ pc[Main] = "ret"
    /\ l.locks = 2

\* C6: the mutex is held by at most one context; Lock returns only from the
\* unlocked state, and a Lock issued while the mutex is held does not
\* return.
C6_MutualExclusion ==
    /\ [](/\ l.locks - l.unlocks \in {0, 1}
          /\ l.state = "Locked" <=> l.locks - l.unlocks = 1)
    /\ [][l'.locks > l.locks =>
            l.state = "Unlocked" /\ l'.state = "Locked"]_vars
    /\ []((example = 7 /\ pc[Main] = "L120" /\ l.state = "Locked") =>
            ~ENABLED E7_Lock2)

\* main is in its second l.Lock() while the mutex is held.
C6_Witness ==
    /\ example = 7 /\ pc[Main] = "L120"
    /\ l.state = "Locked"

-----------------------------------------------------------------------------
(* Channels: close *)

\* C7: once the channel is closed and holds no buffered value, every
\* receive, pending or later, can complete, and completes with the zero
\* value and ok = false, leaving the channel as it is; a closed channel
\* stays closed.  In Example4 both <-c yield 0.
C7_RecvAfterClose ==
    /\ []((ch.closed /\ Len(ch.buf) = 0) =>
            /\ \A r \in Clients :
                  cop[r].op = "recv" => ENABLED Chan_RecvReturn(r)
            /\ (example = 4 /\ pc[Main] = "L62") => ENABLED E4_Recv1
            /\ (example = 4 /\ pc[Main] = "L63") => ENABLED E4_Recv2)
    /\ [][\A r \in Clients :
            (ch.closed /\ Len(ch.buf) = 0 /\ RecvCompletes(r)) =>
                /\ ret' = Returned(r, "recv", 0, FALSE, "none")
                /\ ch' = ch]_vars
    /\ [][ch.closed => ch'.closed]_vars
    /\ []((example = 4 /\ pc[Main] \in {"L64", "ret"}) =>
            SubSeq(out, 1, 2) = <<"0", "0">>)

\* A client received ok = false from the closed channel.
C7_Witness ==
    /\ example = 0
    /\ ch.closed
    /\ ret.op = "recv" /\ ~ret.ok

\* The step is a close(c) of client c.
CloseStep(c) == nops' = nops + 1 /\ cop' = cop /\ ret'.client = c

\* C8: the values buffered when the channel is closed are not discarded;
\* the following receives deliver each, oldest first, with ok = true, and
\* a receive yields ok = false only when the buffer is empty.
C8_DrainOnClose ==
    /\ [][\A c \in Clients : CloseStep(c) => ch'.buf = ch.buf]_vars
    /\ [][\A r \in Clients :
            (ch.closed /\ Len(ch.buf) > 0 /\ RecvCompletes(r)) =>
                /\ ret' = Returned(r, "recv", Head(ch.buf), TRUE, "none")
                /\ ch'.buf = Tail(ch.buf)]_vars
    /\ [][\A r \in Clients :
            (RecvCompletes(r) /\ ~ret'.ok) =>
                ch.closed /\ Len(ch.buf) = 0]_vars

\* A client received a value from the closed channel.
C8_Witness ==
    /\ example = 0
    /\ ch.closed
    /\ ret.op = "recv" /\ ret.ok

\* C9: a send on a closed channel never waits and fails with SendOnClosed;
\* it leaves the channel as it is, and no send completes on a closed
\* channel.
C9_SendOnClosed ==
    /\ [](ch.closed =>
            \A s \in Clients :
                cop[s].op = "send" => ENABLED Chan_SendReturn(s))
    /\ [][\A s \in Clients :
            (ch.closed /\ SendCompletes(s)) =>
                /\ ret' = Returned(s, "send", cop[s].val, FALSE,
                                   "SendOnClosed")
                /\ ch' = ch]_vars
    /\ [][ch.closed =>
            /\ ch'.sends = ch.sends
            /\ \/ ch'.buf = ch.buf
               \/ Len(ch.buf) > 0 /\ ch'.buf = Tail(ch.buf)]_vars

\* A send has failed with SendOnClosed.
C9_Witness ==
    /\ example = 0
    /\ ret.op = "send" /\ ret.err = "SendOnClosed"

\* C10: close() on an open channel closes it and keeps its buffered values;
\* close() on a closed channel fails with DoubleClose and leaves the
\* channel closed and as it is; the channel goes from open to closed only
\* by a close() that succeeds.
C10_DoubleClose ==
    /\ [][\A c \in Clients :
            CloseStep(c) =>
                IF ch.closed
                THEN /\ ret' = Returned(c, "close", 0, FALSE, "DoubleClose")
                     /\ ch' = ch
                ELSE /\ ret' = Returned(c, "close", 0, TRUE, "none")
                     /\ ch' = [ch EXCEPT !.closed = TRUE]]_vars
    /\ [][(example = 0 /\ ch'.closed # ch.closed) =>
            /\ ~ch.closed
            /\ \E c \in Clients : CloseStep(c) /\ ret'.ok]_vars
    /\ [][(example = 4 /\ pc[Child] = "L60" /\ pc'[Child] # "L60") =>
            ~ch.closed /\ ch'.closed /\ pc'[Child] = "done"]_vars

\* A close() has failed with DoubleClose.
C10_Witness ==
    /\ example = 0
    /\ ch.closed
    /\ ret.op = "close" /\ ret.err = "DoubleClose"

-----------------------------------------------------------------------------
(* sync.Mutex: who unlocks *)

\* The step is one of goroutine p.
StepOf(p) == pc'[p] # pc[p]

\* The goroutine that holds l when it is locked: l.Lock() is called by
\* the goroutine that runs Example7 alone (lines 118 and 120).
Locker == Main

\* The step is a call of l.Unlock() that returns.
UnlockReturns == l'.unlocks = l.unlocks + 1

\* C11 as stated: l.Unlock() succeeds only when its caller is the context
\* that holds the mutex.
C11_UnlockOnlyByHolder ==
    [][UnlockReturns => StepOf(Locker)]_vars

\* C11, amended: l.Unlock() succeeds, moving the mutex from held to free,
\* whenever the mutex is locked, whichever goroutine calls it: in Example7
\* f unlocks the mutex that main locked.  Only an Unlock of a mutex that is
\* not locked is a fatal error.
C11_UnlockWhenLocked ==
    /\ [][(example = 7 /\ pc[Child] = "L115" /\ StepOf(Child)) =>
            IF l.state = "Locked"
            THEN /\ l' = [l EXCEPT !.state = "Unlocked",
                                   !.unlocks = @ + 1]
                 /\ pc'[Child] = "done"
            ELSE /\ l' = l
                 /\ pc'[Child] = "fatal"]_vars
    /\ [][UnlockReturns =>
            /\ l.state = "Locked" /\ l'.state = "Unlocked"
            /\ StepOf(Child) /\ ~StepOf(Locker)]_vars
    /\ []((example = 7 /\ pc[Child] = "L115") => l.state = "Locked")

\* f has unlocked the mutex that main locked.
C11_Witness ==
    /\ example = 7
    /\ pc[Child] = "done"
    /\ l.unlocks = 1

-----------------------------------------------------------------------------
(* Example6: a work function that fails *)

\* line 97, worker w: w(i) for a work function that does not return: it
\* panics, or it ends its goroutine (runtime.Goexit).  Line 98 is not
\* deferred, so it is not executed.  The functions that line 88 puts in
\* work only print and return; Spec and FairSpec run those.
E6_WorkFails(w) ==
    /\ example = 6 /\ pc[w] = "L97"
    /\ Goto(w, "failed")
    /\ UNCHANGED <<example, a, i, ch, l, out, cop, ret, nops, half>>

\* Example6 with work functions of FuncType (line 80) that may fail.
FailNext == Example6 \/ \E w \in Workers : E6_WorkFails(w)

FailSpec == Start({6}) /\ [][FailNext]_vars

\* C12: each admitted work item releases its ticket when its work ends,
\* normally or not: the tokens in the channel of the limiter are as many as
\* the work items still executing, and when every work item has ended no
\* ticket is held.
C12_ReleaseOnEveryPath ==
    example = 6 =>
        /\ Len(ch.buf) = Cardinality(Running)
        /\ (\A w \in Workers : pc[w] \in {"done", "failed"}) =>
              Len(ch.buf) = 0

-----------------------------------------------------------------------------
(* The go statement *)

\* What the function has assigned to a when it executes its go statement.
PreSpawn(e) == <<"hello world", "empty", "", "", "", "", "">>[e]

\* The writes of a in Example1 that do not precede the one before the go
\* statement, word by word.
E1_Data == {"hello world", "bye world"}

E1_Lens == {StrLen(d) : d \in E1_Data}

-----------------------------------------------------------------------------
(* Operations that do not block *)

GoLine(e) == <<"L17", "L30", "L44", "L58", "L72", "L92", "L119">>[e]

\* C14: the go statement, close and the release of a ticket never block: a
\* goroutine about to execute one of them can execute it; the <-limit of a
\* worker of Example6 finds a token in the channel.
C14_NonBlocking ==
    /\ (example \in 1..7 /\ pc[Main] = GoLine(example)
            /\ (example = 6 => i < NumWork)) =>
          ENABLED (E1_Go \/ E2_Go \/ E3_Go \/ E4_Go \/ E5_Go \/ E6_Go
                   \/ E7_Go)
    /\ (example = 4 /\ pc[Child] = "L60") => ENABLED E4_ChildClose
    /\ \A c \in Clients :
          (example = 0 /\ pc[Main] = "run" /\ cop[c].op = "idle"
              /\ nops < MaxOps) => ENABLED Chan_Close(c)
    /\ \A w \in Workers :
          (example = 6 /\ pc[w] = "L98") =>
              /\ Len(ch.buf) > 0
              /\ ENABLED E6_Release(w)

\* Three workers of Example6 hold tickets and one of them is about to
\* release its ticket.
C14_Witness ==
    /\ example = 6
    /\ Cardinality(Running) = LimitCap
    /\ \E w \in Workers : pc[w] = "L98"

-----------------------------------------------------------------------------
(* Example3 and Example4 *)

\* C15: in Example3 main's <-c completes only after the goroutine's c <- 0,
\* which follows a = "hello world"; main prints "hello world".
C15_SendBeforeRecv ==
    /\ [][(example = 3 /\ pc[Main] = "L48" /\ StepOf(Main)) =>
            /\ pc[Child] = "done" /\ ch.sends = 1
            /\ a = "hello world"
            /\ pc'[Main] = "L49"]_vars
    /\ []((example = 3 /\ pc[Main] = "L48" /\ ch.sends = 0) =>
            ~ENABLED E3_Recv)
    /\ []((example = 3 /\ pc[Main] = "ret") => out = <<"hello world">>)

\* Example3 has returned after its receive.
C15_Witness ==
    /\ example = 3 /\ pc[Main] = "ret"
    /\ ch.recvs = 1

-----------------------------------------------------------------------------
(* Example1 and Example2: what is printed *)

\* C17: in Example1 the goroutine prints "bye world" in every execution.
C17_ChildPrintsBye ==
    (example = 1 /\ pc[Child] = "done") => out = <<"bye world">>

\* C18: in Example2 main prints "empty" in every execution.
C18_MainPrintsEmpty ==
    (example = 2 /\ pc[Main] = "ret") => out = <<"empty">>

-----------------------------------------------------------------------------
(* The occupancy of a channel *)

\* C19: the number of buffered values of a channel of capacity C is between
\* 0 and C and is the number of completed sends less the number of
\* completed receives of values; for limit of Example6 it is in 0..3.
C19_Occupancy ==
    /\ Len(ch.buf) \in 0..ch.cap
    /\ Len(ch.buf) = ch.sends - ch.recvs
    /\ example = 6 => Len(ch.buf) \in 0..LimitCap

\* limit is full after five sends and two receives.
C19_Witness ==
    /\ example = 6
    /\ Len(ch.buf) = LimitCap
    /\ ch.sends = 5 /\ ch.recvs = 2

-----------------------------------------------------------------------------
(* Example3, Example4, Example5, Example7: no deadlock *)

Handshakes == {3, 4, 5, 7}

\* C20: in Example3, Example4, Example5 and Example7, under fair
\* scheduling, main's blocking statement completes and the example
\* returns; in no state before the return is every goroutine unable to
\* take a step.
C20_HandshakesReturn ==
    /\ []((example \in Handshakes /\ pc[Main] # "ret") => ENABLED Examples)
    /\ (example \in Handshakes ~> pc[Main] = "ret")

\* Example5 has returned after printing, and its goroutine has ended.
C20_Witness ==
    /\ example = 5
    /\ pc[Main] = "ret" /\ pc[Child] = "done"
    /\ out = <<"hello world">>

====
